---- MODULE Spec2Model ----
(***************************************************************************)
(* A model of the GitHub backend of netlify-cms                            *)
(* (packages/netlify-cms-backend-github/src/implementation.tsx):           *)
(*   - the bounded-concurrency fetchers fetchFiles and unpublishedEntries, *)
(*   - runWithLock and the four guarded facade operations,                 *)
(*   - the open-authoring fork resolution (authenticateWithFork),          *)
(*   - the constructor, authenticate, restoreUser and logout,              *)
(*   - the deploy preview lookup (getDeployPreview, isPreviewContext).     *)
(* JavaScript runs one task at a time: an action of this model is one      *)
(* task of the event loop together with the microtasks (promise            *)
(* reactions) it triggers; the points where an action ends are the awaits  *)
(* on something outside the page (a network answer, a timer, a human).     *)
(***************************************************************************)
EXTENDS Integers, Sequences, FiniteSets, TLC

VARIABLES
  \* ---- fetchFiles / unpublishedEntries ----
  fOp,        \* which fetcher was called: "none", "fetchFiles", "unpublishedEntries"
  fState,     \* the returned promise: "idle", "listing", "pending", "fulfilled", "rejected"
  sem,        \* the semaphore of the call: [current, queue]
  promises,   \* per item: the value its promise resolved with, or "pending"
  fResult,    \* the collection the returned promise is fulfilled with
  fError,     \* the error the returned promise is rejected with
  readOutcome,\* per item: how its read settled: "-", "ok", "failed", and for a
              \* branch also "nodata", "malformed" (history)
  listed,     \* how listUnpublishedBranches() settled: "-", "branches", or the
              \* message of the error it was rejected with (history)
  \* ---- runWithLock ----
  lock,       \* the AsyncLock of the backend: [held, queue]
  calls,      \* per invocation of a guarded operation: its record
  \* ---- open authoring ----
  gh,         \* the fields of the GitHub instance that fork resolution uses
  run,        \* the call of authenticateWithFork in progress, with its history
  remoteFork, \* GitHub: what GET /repos/{login}/{repoName} answers
  runs,       \* the number of calls of authenticateWithFork so far
  \* ---- construction and authentication ----
  made,       \* new GitHub(config, options): the arguments and the error thrown
  api,        \* this.api: the repository-API client of the instance
  token,      \* this.token
  auth,       \* the call of authenticate or restoreUser in progress, with its history
  auths,      \* the number of calls of authenticate and restoreUser so far
  logouts,    \* the number of calls of logout so far
  \* ---- deploy preview ----
  preview     \* the call of getDeployPreview in progress

fetchVars == <<fOp, fState, sem, promises, fResult, fError, readOutcome, listed>>
lockVars == <<lock, calls>>
forkVars == <<gh, run, remoteFork, runs>>
authVars == <<made, api, token, auth, auths, logouts>>
previewVars == <<preview>>

vars == <<fOp, fState, sem, promises, fResult, fError, readOutcome, listed,
          lock, calls,
          gh, run, remoteFork, runs, made, api, token, auth, auths, logouts,
          preview>>

-----------------------------------------------------------------------------
(* Bounds of the model and constants of the program.                       *)

MAX_CONCURRENT_DOWNLOADS == 10

\* FetchSpec: the longest list of files or branches.
MaxFiles == 4
\* CapSpec: how many items more than MAX_CONCURRENT_DOWNLOADS a list may hold.
MaxOverflow == 1
\* CapSpec: how many reads of one list may fail.
MaxFailed == 2
\* LockSpec: the number of invocations of guarded operations.
MaxCalls == 3
\* ForkSpec: the number of calls of authenticateWithFork, and the number of
\* probes of one poll that find the fork not ready yet.
MaxRuns == 2
MaxNotReady == 2
\* AuthSpec: the number of calls of authenticate and restoreUser, of logout.
MaxAuths == 2
MaxLogouts == 1
\* PreviewSpec: the longest list of commit statuses.
MaxStatuses == 3

-----------------------------------------------------------------------------
(* JavaScript values, as far as the code looks at them.                    *)

\* What api.readFile may reject with. "undefined" is a rejection with no
\* value, "Error" an Error object, "null" the value null.
RejectValues == {"undefined", "Error", "null"}

\* ToBoolean of a value.
Truthy(v) == v \notin {"undefined", "null", "false"}

\* A parameter with a default value: the default replaces undefined only.
DefaultParam(v, default) == IF v = "undefined" THEN default ELSE v

-----------------------------------------------------------------------------
(* The semaphore of the npm package `semaphore`, as fetchFiles and         *)
(* unpublishedEntries use it: take(task) and leave().                      *)

semaphore(capacity) == [capacity |-> capacity, current |-> 0, queue |-> <<>>]

\* sem.take(task): the task runs at once when a slot is free, and waits in
\* the queue otherwise.
semTake(s, i) ==
  IF s.current + 1 > s.capacity
    THEN [s EXCEPT !.queue = Append(@, i)]
    ELSE [s EXCEPT !.current = @ + 1]

\* sem.leave(): gives the slot back and, when a task waits and fits, hands the
\* slot to the head of the queue and starts it (the package starts it on the
\* next tick; the slot is counted at once).
semLeave(s) ==
  LET c == s.current - 1 IN
  IF s.queue = <<>> \/ 1 + c > s.capacity
    THEN [s EXCEPT !.current = c]
    ELSE [s EXCEPT !.current = c + 1, !.queue = Tail(@)]

\* files.forEach(file => promises.push(new Promise(... sem.take(...)))):
\* the semaphore after the first n takes.
RECURSIVE takeAll(_)
takeAll(n) ==
  IF n = 0 THEN semaphore(MAX_CONCURRENT_DOWNLOADS)
           ELSE semTake(takeAll(n - 1), n)

-----------------------------------------------------------------------------
(* The values the item promises are resolved with.                         *)

\* resolve({ file, data, error: false })
entryOf(data) == "entry"
\* resolve({ error: err })
errorObject(err) == IF err = "true" THEN "{error:true}"
                    ELSE IF err = "Error" THEN "{error:Error}"
                    ELSE IF err = "null" THEN "{error:null}"
                    ELSE "{error:false}"
\* loadedEntry.error
errorField(v) == IF v = "entry" THEN "false"
                 ELSE IF v = "{error:true}" THEN "true"
                 ELSE IF v = "{error:Error}" THEN "Error"
                 ELSE IF v = "{error:null}" THEN "null"
                 ELSE IF v = "{error:false}" THEN "false"
                 ELSE "undefined"

-----------------------------------------------------------------------------
(* Promise.all(promises).then(filter)                                      *)

\* loadedEntries.filter(loadedEntry => !loadedEntry.error)
fetchFilesKeeps(v) == ~Truthy(errorField(v))

\* entries.filter(entry => entry !== null)
unpublishedKeeps(v) == v # "null"

keeps(op, v) ==
  IF op = "fetchFiles" THEN fetchFilesKeeps(v) ELSE unpublishedKeeps(v)

\* The values kept, each with the item it came from (src).
RECURSIVE filterEntries(_, _, _)
filterEntries(op, ps, k) ==
  IF k > Len(ps) THEN <<>>
  ELSE (IF keeps(op, ps[k]) THEN <<[src |-> k, val |-> ps[k]]>> ELSE <<>>)
       \o filterEntries(op, ps, k + 1)

\* The promise Promise.all(promises).then(filter) after the item promises
\* became ps: rejected as soon as one item promise is rejected, fulfilled
\* with the filtered values once all are fulfilled, pending otherwise.
promiseAll(op, ps) ==
  IF \E k \in 1..Len(ps) : ps[k] = "rejected"
    THEN [state |-> "rejected", result |-> <<>>]
  ELSE IF \E k \in 1..Len(ps) : ps[k] = "pending"
    THEN [state |-> "pending", result |-> <<>>]
  ELSE [state |-> "fulfilled", result |-> filterEntries(op, ps, 1)]

\* Handlers that keep the slot of a read that failed.
itemSettlesKeepsSlotOnFailure(i, how, v) ==
  LET l  == IF how = "failed" THEN sem ELSE semLeave(sem)
      ps == [promises EXCEPT ![i] = v]
      a  == promiseAll(fOp, ps)
  IN /\ sem' = l
     /\ promises' = ps
     /\ readOutcome' = [readOutcome EXCEPT ![i] = how]
     /\ IF fState = "pending"
          THEN /\ fState' = a.state
               /\ fResult' = a.result
               /\ fError' = IF a.state = "rejected" THEN "item" ELSE "-"
          ELSE UNCHANGED <<fState, fResult, fError>>
     /\ UNCHANGED <<fOp, listed, lockVars, forkVars, authVars, previewVars>>

\* The read of item i settles (how: "ok" or "failed"), the handler resolves
\* the item promise with v and leaves the slot, and the aggregate follows.
\* A returned promise that is already settled stays as it is.
itemSettles(i, how, v) ==
  LET l  == semLeave(sem)
      ps == [promises EXCEPT ![i] = v]
      a  == promiseAll(fOp, ps)
  IN /\ sem' = l
     /\ promises' = ps
     /\ readOutcome' = [readOutcome EXCEPT ![i] = how]
     /\ IF fState = "pending"
          THEN /\ fState' = a.state
               /\ fResult' = a.result
               /\ fError' = IF a.state = "rejected" THEN "item" ELSE "-"
          ELSE UNCHANGED <<fState, fResult, fError>>
     /\ UNCHANGED <<fOp, listed, lockVars, forkVars, authVars, previewVars>>

\* Item i has taken a slot and started its read, which has not settled.
isRunning(i) ==
  /\ i \in 1..Len(promises)
  /\ promises[i] = "pending"
  /\ \A k \in 1..Len(sem.queue) : sem.queue[k] # i

running == {i \in 1..Len(promises) : isRunning(i)}

\* The items whose read has settled, has succeeded, has failed.
settled == {i \in 1..Len(readOutcome) : readOutcome[i] # "-"}
succeeded == {i \in 1..Len(readOutcome) : readOutcome[i] = "ok"}
failed == {i \in 1..Len(readOutcome) : readOutcome[i] = "failed"}

-----------------------------------------------------------------------------
(* fetchFiles                                                              *)

\* A fan-out that starts every read at once, the semaphore not holding any back.
fanOutAllAtOnce(op, n) ==
  LET ps == [k \in 1..n |-> "pending"]
      a  == promiseAll(op, ps)
  IN /\ fOp' = op
     /\ sem' = [semaphore(MAX_CONCURRENT_DOWNLOADS) EXCEPT !.current = n]
     /\ promises' = ps
     /\ readOutcome' = [k \in 1..n |-> "-"]
     /\ fState' = a.state
     /\ fResult' = a.result
     /\ fError' = "-"
     /\ listed' = IF op = "unpublishedEntries" THEN "branches" ELSE listed
     /\ UNCHANGED <<lockVars, forkVars, authVars, previewVars>>

\* The fan-out of a fetcher over n items: every item takes the semaphore.
fanOut(op, n) ==
  LET ps == [k \in 1..n |-> "pending"]
      a  == promiseAll(op, ps)
  IN /\ fOp' = op
     /\ sem' = takeAll(n)
     /\ promises' = ps
     /\ readOutcome' = [k \in 1..n |-> "-"]
     /\ fState' = a.state
     /\ fResult' = a.result
     /\ fError' = "-"
     /\ listed' = IF op = "unpublishedEntries" THEN "branches" ELSE listed
     /\ UNCHANGED <<lockVars, forkVars, authVars, previewVars>>

\* fetchFiles(files) with n files.
fetchFiles(n) ==
  /\ fState = "idle"
  /\ fanOut("fetchFiles", n)

\* api.readFile(...) of file i is fulfilled:
\* resolve({ file, data, error: false }); sem.leave()
readFileResolves(i) ==
  /\ fOp = "fetchFiles"
  /\ isRunning(i)
  /\ itemSettles(i, "ok", entryOf("data"))

\* A catch handler that passes the rejection on to the item promise.
readFileRejectsRethrows(i, err) ==
  /\ fOp = "fetchFiles"
  /\ isRunning(i)
  /\ itemSettles(i, "failed", "rejected")

\* api.readFile(...) of file i is rejected with err:
\* .catch((err = true) => { sem.leave(); console.error(...); resolve({ error: err }) })
readFileRejects(i, err) ==
  /\ fOp = "fetchFiles"
  /\ isRunning(i)
  /\ itemSettles(i, "failed", errorObject(DefaultParam(err, "true")))

-----------------------------------------------------------------------------
(* unpublishedEntries                                                      *)

\* unpublishedEntries(): api.listUnpublishedBranches() is called.
unpublishedEntries ==
  /\ fState = "idle"
  /\ fOp' = "unpublishedEntries"
  /\ fState' = "listing"
  /\ UNCHANGED <<sem, promises, fResult, fError, readOutcome, listed,
                 lockVars, forkVars, authVars, previewVars>>

\* listUnpublishedBranches() is fulfilled with n branches.
listResolves(n) ==
  /\ fState = "listing"
  /\ fanOut("unpublishedEntries", n)

\* A catch handler that takes every failure of the listing for "Not Found".
listRejectsAlwaysEmpty(msg) ==
  /\ fState = "listing"
  /\ listed' = msg
  /\ fState' = "fulfilled" /\ fResult' = <<>> /\ fError' = "-"
  /\ UNCHANGED <<fOp, sem, promises, readOutcome, lockVars, forkVars, authVars, previewVars>>

\* error.message of the value the listing is rejected with; reading it of
\* null throws a TypeError.
messageOf(msg) == IF msg = "null" THEN "TypeError" ELSE msg

\* listUnpublishedBranches() is rejected with an error whose message is msg
\* (or with the value null, "null"):
\* .catch(error => error.message === 'Not Found' ? Promise.resolve([]) : Promise.reject(error))
listRejects(msg) ==
  /\ fState = "listing"
  /\ listed' = msg
  /\ IF messageOf(msg) = "Not Found"
       THEN fState' = "fulfilled" /\ fResult' = <<>> /\ fError' = "-"
       ELSE fState' = "rejected" /\ fResult' = <<>> /\ fError' = messageOf(msg)
  /\ UNCHANGED <<fOp, sem, promises, readOutcome, lockVars, forkVars, authVars, previewVars>>

\* readUnpublishedBranchFile(contentKey) of branch i is fulfilled with data
\* ("data"), with null or undefined ("null"), or with an object without
\* metaData ("malformed": the then handler throws before it resolves or
\* leaves, and the catch handler leaves and resolves null).
readBranchResolves(i, data) ==
  /\ fOp = "unpublishedEntries"
  /\ isRunning(i)
  /\ itemSettles(i, IF data = "data" THEN "ok"
                    ELSE IF data = "null" THEN "nodata" ELSE "malformed",
                 IF data = "data" THEN "entry" ELSE "null")

\* readUnpublishedBranchFile(contentKey) of branch i is rejected:
\* .catch(() => { sem.leave(); resolve(null) })
readBranchRejects(i) ==
  /\ fOp = "unpublishedEntries"
  /\ isRunning(i)
  /\ itemSettles(i, "failed", "null")

-----------------------------------------------------------------------------
(* The AsyncLock of netlify-cms-lib-util (asyncLock()), by its contract:   *)
(* one holder at a time, waiters served in the order they asked, acquire() *)
(* answers whether the lock was obtained, release() may always be called.  *)

asyncLock == [held |-> FALSE, queue |-> <<>>]

\* lock.acquire() by invocation p: obtained at once when the lock is free,
\* otherwise p waits for it.
lockAcquire(l, p) ==
  IF l.held THEN [l EXCEPT !.queue = Append(@, p)]
            ELSE [l EXCEPT !.held = TRUE]

\* The wait of p ends with "not obtained": p leaves the queue.
lockGiveUp(l, p) ==
  [l EXCEPT !.queue = SelectSeq(@, LAMBDA q : q # p)]

\* lock.release(): the lock goes to the first waiter, or becomes free.
lockRelease(l) ==
  IF l.queue # <<>> THEN [l EXCEPT !.queue = Tail(@)]
                    ELSE [l EXCEPT !.held = FALSE]

\* The waiter release() hands the lock to, if any.
lockNext(l) == IF l.queue # <<>> THEN {Head(l.queue)} ELSE {}

-----------------------------------------------------------------------------
(* runWithLock and the guarded operations                                  *)

GuardedOps ==
  {"persistEntry", "updateUnpublishedEntryStatus",
   "deleteUnpublishedEntry", "publishUnpublishedEntry"}

\* The message each guarded operation passes to runWithLock.
lockMessage(op) ==
  CASE op = "persistEntry" -> "Failed to acquire persist entry lock"
    [] op = "updateUnpublishedEntryStatus" -> "Failed to acquire update entry status lock"
    [] op = "deleteUnpublishedEntry" -> "Failed to acquire delete entry lock"
    [] op = "publishUnpublishedEntry" -> "Failed to acquire publish entry lock"

NoCall ==
  [op |-> "-", pc |-> "idle", acquired |-> "-", warned |-> "-",
   acquires |-> 0, funcRuns |-> 0, releases |-> 0,
   funcResult |-> "-", result |-> "-"]

\* const acquired = await this.lock.acquire(); if (!acquired) console.warn(message);
\* const result = await func();   -- up to the call of func.
afterAcquire(c, acquired) ==
  [c EXCEPT !.acquired = IF acquired THEN "true" ELSE "false",
            !.warned = IF ~acquired THEN lockMessage(c.op) ELSE @,
            !.funcRuns = @ + 1,
            !.pc = "func"]

\* A runWithLock that does not wait for acquire() before it calls func.
runWithLockNoAwait(p, op) ==
  /\ calls[p].pc = "idle"
  /\ \A q \in 1..(p - 1) : calls[q].pc # "idle"
  /\ calls' = [calls EXCEPT ![p] =
                 afterAcquire([@ EXCEPT !.op = op, !.acquires = @ + 1], TRUE)]
  /\ lock' = [lock EXCEPT !.held = TRUE]
  /\ UNCHANGED <<fetchVars, forkVars, authVars, previewVars>>

\* A guarded operation op is called as invocation p: runWithLock asks for the
\* lock and, when it is free, calls func at once.
runWithLock(p, op) ==
  /\ calls[p].pc = "idle"
  /\ \A q \in 1..(p - 1) : calls[q].pc # "idle"
  /\ LET c == [calls[p] EXCEPT !.op = op, !.acquires = @ + 1, !.pc = "acquiring"]
     IN calls' = [calls EXCEPT ![p] = IF lock.held THEN c ELSE afterAcquire(c, TRUE)]
  /\ lock' = lockAcquire(lock, p)
  /\ UNCHANGED <<fetchVars, forkVars, authVars, previewVars>>

\* A runWithLock that gives the operation up when the lock was not obtained.
acquireFailsThrows(p) ==
  /\ calls[p].pc = "acquiring"
  /\ lock' = lockRelease(lockGiveUp(lock, p))
  /\ calls' = [q \in DOMAIN calls |->
                 IF q = p
                   THEN [calls[q] EXCEPT !.acquired = "false", !.releases = @ + 1,
                                         !.result = "error", !.pc = "done"]
                 ELSE IF q \in lockNext(lockGiveUp(lock, p))
                   THEN afterAcquire(calls[q], TRUE)
                 ELSE calls[q]]
  /\ UNCHANGED <<fetchVars, forkVars, authVars, previewVars>>

\* acquire() of the waiting invocation p answers false: the warning is logged
\* and func is called all the same.
acquireFails(p) ==
  /\ calls[p].pc = "acquiring"
  /\ lock' = lockGiveUp(lock, p)
  /\ calls' = [calls EXCEPT ![p] = afterAcquire(@, FALSE)]
  /\ UNCHANGED <<fetchVars, forkVars, authVars, previewVars>>

\* A runWithLock whose finally block returns, which hides what func settled with.
funcSettlesFinallyReturns(p, r) ==
  /\ calls[p].pc = "func"
  /\ lock' = lockRelease(lock)
  /\ calls' = [q \in DOMAIN calls |->
                 IF q = p
                   THEN [calls[q] EXCEPT !.funcResult = r, !.releases = @ + 1,
                                         !.result = "undefined", !.pc = "done"]
                 ELSE IF q \in lockNext(lock)
                   THEN afterAcquire(calls[q], TRUE)
                 ELSE calls[q]]
  /\ UNCHANGED <<fetchVars, forkVars, authVars, previewVars>>

\* A runWithLock that releases the lock after a success only (no finally).
funcSettlesNoFinally(p, r) ==
  /\ calls[p].pc = "func"
  /\ lock' = IF r = "value" THEN lockRelease(lock) ELSE lock
  /\ calls' = [q \in DOMAIN calls |->
                 IF q = p
                   THEN [calls[q] EXCEPT !.funcResult = r,
                                         !.releases = IF r = "value" THEN @ + 1 ELSE @,
                                         !.result = r, !.pc = "done"]
                 ELSE IF r = "value" /\ q \in lockNext(lock)
                   THEN afterAcquire(calls[q], TRUE)
                 ELSE calls[q]]
  /\ UNCHANGED <<fetchVars, forkVars, authVars, previewVars>>

\* func() of invocation p settles with r ("value" or "error"): runWithLock
\* returns or throws the same, after the finally block released the lock; the
\* waiter the lock goes to goes on to call its func.
funcSettles(p, r) ==
  /\ calls[p].pc = "func"
  /\ lock' = lockRelease(lock)
  /\ calls' = [q \in DOMAIN calls |->
                 IF q = p
                   THEN [calls[q] EXCEPT !.funcResult = r, !.releases = @ + 1,
                                         !.result = r, !.pc = "done"]
                 ELSE IF q \in lockNext(lock)
                   THEN afterAcquire(calls[q], TRUE)
                 ELSE calls[q]]
  /\ UNCHANGED <<fetchVars, forkVars, authVars, previewVars>>

-----------------------------------------------------------------------------
(* Open authoring: names, answers of GitHub, and the caches.               *)

\* Repository names are sequences of characters; Undefined is JavaScript's
\* undefined, where a name is expected.
Undefined == <<>>
OriginRepos == {<<"o", "/", "r">>, <<"O", "/", "r">>}
ForkName == <<"u", "/", "r">>
ParentNames == {<<"o", "/", "r">>, <<"O", "/", "R">>, <<"x", "/", "r">>}

lowerChar(c) == IF c = "O" THEN "o" ELSE IF c = "R" THEN "r" ELSE c
\* String.prototype.toLowerCase
toLowerCase(name) == [k \in 1..Len(name) |-> lowerChar(name[k])]

Tokens == {"t1", "t2"}
\* GitHub: the login of the user a token belongs to.
loginOf(tok) == IF tok = "t1" THEN "u1" ELSE "u2"
Logins == {loginOf(t) : t \in Tokens}

\* The JSON of GET /repos/{login}/{repoName}, as far as forkExists reads it.
RepoJsons ==
  {[fork |-> TRUE, parent |-> n] : n \in ParentNames}
    \cup {[fork |-> FALSE, parent |-> Undefined], [fork |-> TRUE, parent |-> Undefined]}

Permissions == {"admin", "write", "read", "none"}
\* What a fetch is rejected with: an object with status 404, an object with
\* another status, an error without a status.
FetchErrors == {"status404", "status500", "TypeError"}

Unset == [state |-> "unset", value |-> "-"]

NoRun ==
  [pc |-> "idle", token |-> "-", gate |-> "-", error |-> "-",
   username |-> "-", permission |-> "-", forkExists |-> "-",
   lookup |-> "-", lookupJson |-> [fork |-> FALSE, parent |-> Undefined],
   userFetches |-> 0, permissionFetches |-> 0, forkLookups |-> 0,
   gateCalls |-> 0, gateSettled |-> 0, createCalls |-> 0,
   created |-> Undefined, polled |-> Undefined,
   probes |-> 0, lastProbe |-> "-", notReady |-> 0]

\* The state a step works on: the instance and the call.
St(g, r) == [gh |-> g, run |-> r]

\* The call fails with error e.
throws(st, e) == [st EXCEPT !.run.pc = "failed", !.run.error = e]

-----------------------------------------------------------------------------
(* pollUntilForkExists                                                     *)

\* fetch(`${apiRoot}/repos/${repo}`) is issued.
probe(st) == [st EXCEPT !.run.pc = "awaitProbe", !.run.probes = @ + 1]

\* pollUntilForkExists({ repo, token }) up to its first probe.
pollUntilForkExists(st, repo) == probe([st EXCEPT !.run.polled = repo])

\* A poll that gives up at the second probe that finds the fork not ready.
probeSettledGivesUp(st, answer) ==
  LET s1 == [st EXCEPT !.run.lastProbe = answer] IN
  IF answer = "fulfilled" THEN [s1 EXCEPT !.run.pc = "done"]
  ELSE IF answer = "status404" /\ st.run.notReady < 1
    THEN [s1 EXCEPT !.run.pc = "pollDelay", !.run.notReady = @ + 1]
  ELSE throws(s1, answer)

\* The probe's fetch settles. answer is "fulfilled" (a response, whatever its
\* status) or an element of FetchErrors:
\* .then(() => true).catch(err => err && err.status === 404 ? false : Promise.reject(err))
probeSettled(st, answer) ==
  LET s1 == [st EXCEPT !.run.lastProbe = answer] IN
  IF answer = "fulfilled" THEN [s1 EXCEPT !.run.pc = "done"]
  ELSE IF answer = "status404"
    THEN [s1 EXCEPT !.run.pc = "pollDelay", !.run.notReady = @ + 1]
  ELSE throws(s1, answer)

-----------------------------------------------------------------------------
(* authenticateWithFork, from the answer about the maintainer on           *)

\* A comparison of the names as they are written.
forkExistsCaseSensitive(json, originRepo) ==
  /\ json.fork = TRUE
  /\ json.parent # Undefined
  /\ json.parent = originRepo

\* repo.fork === true && repo.parent &&
\*   repo.parent.full_name.toLowerCase() === this.originRepo.toLowerCase()
forkExistsOf(json, originRepo) ==
  /\ json.fork = TRUE
  /\ json.parent # Undefined
  /\ toLowerCase(json.parent) = toLowerCase(originRepo)

\* fetch(`${apiRoot}/repos/${originRepo}/forks`, { method: 'POST' }) is issued.
createFork(st) == [st EXCEPT !.run.pc = "awaitCreate", !.run.createCalls = @ + 1]

\* A gate that is called and not awaited.
afterForkExistsGateNotAwaited(st, exists) ==
  LET s1 == [st EXCEPT !.run.forkExists = IF exists THEN "true" ELSE "false"] IN
  IF exists THEN createFork(s1)
  ELSE IF st.run.gate = "sync"
    THEN createFork([s1 EXCEPT !.run.gateCalls = @ + 1, !.run.gateSettled = @ + 1])
  ELSE createFork([s1 EXCEPT !.run.gateCalls = @ + 1])

\* if (!(await this.forkExists({ token }))) { await getPermissionToFork(); }
\* followed by the POST. A gate that is a plain function ("sync") has
\* answered when it returns, a gate that returns a promise ("async") is awaited.
afterForkExists(st, exists) ==
  LET s1 == [st EXCEPT !.run.forkExists = IF exists THEN "true" ELSE "false"] IN
  IF exists THEN createFork(s1)
  ELSE IF st.run.gate = "sync"
    THEN createFork([s1 EXCEPT !.run.gateCalls = @ + 1, !.run.gateSettled = @ + 1])
  ELSE [s1 EXCEPT !.run.gateCalls = @ + 1, !.run.pc = "awaitGate"]

\* if (await this.userIsOriginMaintainer({ token })) { ...; return } and, if
\* not, forkExists up to its fetch (currentUser is answered from the cache).
afterMaintainer(st, isMaintainer) ==
  IF isMaintainer
    THEN [st EXCEPT !.gh.repo = st.gh.originRepo,
                    !.gh.useOpenAuthoring = "false",
                    !.run.pc = "done"]
    ELSE [st EXCEPT !.run.pc = "awaitForkLookup", !.run.forkLookups = @ + 1]

\* A check that takes only an admin for a maintainer.
isAdminPermission(permission) == permission = "admin"

\* permission === 'admin' || permission === 'write'
isMaintainerPermission(permission) == permission \in {"admin", "write"}

\* userIsOriginMaintainer from the username on: the promise cached for the
\* username is used when there is one, else the permission is fetched.
afterUsername(st, username) ==
  LET m  == st.gh.userIsOriginMaintainerPromises[username]
      s1 == [st EXCEPT !.run.username = username]
  IN IF m.state = "unset"
       THEN [s1 EXCEPT !.gh.userIsOriginMaintainerPromises[username] =
                           [state |-> "pending", value |-> "-"],
                       !.run.permissionFetches = @ + 1,
                       !.run.pc = "awaitPermission"]
     ELSE IF m.state = "rejected" THEN throws(s1, m.value)
     ELSE afterMaintainer([s1 EXCEPT !.run.permission = m.value],
                          isMaintainerPermission(m.value))

\* currentUser({ token }): the cached promise when there is one, else
\* fetch(`${apiRoot}/user`), whose promise is cached.
afterCall(st) ==
  LET u == st.gh.currentUserPromise IN
  IF u.state = "unset"
    THEN [st EXCEPT !.gh.currentUserPromise = [state |-> "pending", value |-> "-"],
                    !.run.userFetches = @ + 1,
                    !.run.pc = "awaitUser"]
  ELSE IF u.state = "rejected" THEN throws(st, u.value)
  ELSE afterUsername(st, u.value)

\* this.api: null, the client passed in options.API ("injected"), or a client
\* made by authenticate with the token, the repository and the flag of then.
NoApi ==
  [kind |-> "null", token |-> "-", repo |-> Undefined, useOpenAuthoring |-> "undefined"]

\* What authenticate and restoreUser compare against: the client member, the
\* target repository and the open-authoring flag of the instance.
configured(g, a) == [api |-> a, repo |-> g.repo, useOpenAuthoring |-> g.useOpenAuthoring]

NoAuth ==
  [pc |-> "idle", op |-> "-", token |-> "-", error |-> "-", result |-> "-",
   assignments |-> 0, resolutions |-> 0, run |-> 0,
   before |-> configured([repo |-> Undefined, useOpenAuthoring |-> "undefined"], NoApi)]

\* No call of authenticateWithFork, authenticate or restoreUser is in progress.
quiet ==
  /\ run.pc \in {"idle", "done", "failed"}
  /\ auth.pc \in {"idle", "done", "failed"}

\* authenticate(state) up to `await this.api.user()`:
\* this.token = state.token; this.api = new apiCtor({ token, repo: this.repo,
\* useOpenAuthoring: this.useOpenAuthoring, ... })
authenticateBegins(g, a, tok) ==
  [token |-> tok,
   api |-> [kind |-> "client", token |-> tok, repo |-> g.repo,
            useOpenAuthoring |-> g.useOpenAuthoring],
   auth |-> [a EXCEPT !.pc = "awaitApiUser", !.assignments = @ + 1]]

\* The step st of fork resolution becomes the next state, a being the call of
\* restoreUser or authenticate of the moment. When restoreUser waits for this
\* fork resolution, its `.then(() => this.authenticate(user))` runs as soon as
\* the resolution is done, and its promise is rejected as soon as it failed.
settles(st, a) ==
  /\ gh' = st.gh
  /\ run' = st.run
  /\ IF a.pc = "resolving" /\ st.run.pc = "done"
       THEN LET n == authenticateBegins(st.gh, a, a.token)
            IN token' = n.token /\ api' = n.api /\ auth' = n.auth
     ELSE IF a.pc = "resolving" /\ st.run.pc = "failed"
       THEN /\ auth' = [a EXCEPT !.pc = "failed", !.error = st.run.error]
            /\ UNCHANGED <<token, api>>
     ELSE auth' = a /\ UNCHANGED <<token, api>>

\* The step st of the model becomes the next state.
becomes(st) == settles(st, auth)

\* authenticateWithFork({ userData: { token }, getPermissionToFork }) is
\* called; it runs up to its first await on the network. The record of the
\* call of authenticate made before is dropped.
authenticateWithFork(tok, gate) ==
  /\ made.error = "-"
  /\ quiet
  /\ runs < MaxRuns
  /\ runs' = runs + 1
  /\ LET st == St(gh, [NoRun EXCEPT !.token = tok, !.gate = gate]) IN
     IF ~gh.openAuthoringEnabled
       THEN settles(throws(st, "Open Authoring is turned off"), NoAuth)
       ELSE settles(afterCall(st), NoAuth)
  /\ UNCHANGED <<remoteFork, fetchVars, lockVars,
                 made, auths, logouts, previewVars>>

\* GET /user answers with the user of the token, or the fetch is rejected.
userAnswers(answer) ==
  /\ run.pc = "awaitUser"
  /\ LET st == St(gh, run) IN
     IF answer = "fulfilled"
       THEN becomes(afterUsername(
              [st EXCEPT !.gh.currentUserPromise =
                           [state |-> "fulfilled", value |-> loginOf(run.token)]],
              loginOf(run.token)))
       ELSE becomes(throws(
              [st EXCEPT !.gh.currentUserPromise =
                           [state |-> "rejected", value |-> answer]],
              answer))
  /\ UNCHANGED <<remoteFork, runs, fetchVars, lockVars,
                 made, auths, logouts, previewVars>>

\* GET .../collaborators/{username}/permission answers with a permission, or
\* the fetch is rejected.
permissionAnswers(answer) ==
  /\ run.pc = "awaitPermission"
  /\ LET st == St(gh, run) IN
     IF answer \in Permissions
       THEN becomes(afterMaintainer(
              [st EXCEPT !.gh.userIsOriginMaintainerPromises[run.username] =
                           [state |-> "fulfilled", value |-> answer],
                         !.run.permission = answer],
              isMaintainerPermission(answer)))
       ELSE becomes(throws(
              [st EXCEPT !.gh.userIsOriginMaintainerPromises[run.username] =
                           [state |-> "rejected", value |-> answer]],
              answer))
  /\ UNCHANGED <<remoteFork, runs, fetchVars, lockVars,
                 made, auths, logouts, previewVars>>

\* GET /repos/{login}/{repoName} answers with the repository GitHub has there,
\* or the fetch is rejected: try { ... } catch { return false }
forkLookupAnswers(answer) ==
  /\ run.pc = "awaitForkLookup"
  /\ LET st == St(gh, run) IN
     IF answer = "fulfilled"
       THEN becomes(afterForkExists([st EXCEPT !.run.lookup = "answered",
                                               !.run.lookupJson = remoteFork],
                                    forkExistsOf(remoteFork, gh.originRepo)))
       ELSE becomes(afterForkExists([st EXCEPT !.run.lookup = answer], FALSE))
  /\ UNCHANGED <<remoteFork, runs, fetchVars, lockVars,
                 made, auths, logouts, previewVars>>

\* The promise of getPermissionToFork() settles: fulfilled with true or false
\* (the value is not looked at), or rejected.
gateSettles(answer) ==
  /\ run.pc = "awaitGate"
  /\ LET st == [St(gh, run) EXCEPT !.run.gateSettled = @ + 1] IN
     IF answer \in {"true", "false"}
       THEN becomes(createFork(st))
       ELSE becomes(throws(st, answer))
  /\ UNCHANGED <<remoteFork, runs, fetchVars, lockVars,
                 made, auths, logouts, previewVars>>

\* POST /repos/{originRepo}/forks answers with a JSON whose full_name is
\* fullName (Undefined when the JSON has none), or the fetch is rejected.
\* this.useOpenAuthoring = true; this.repo = fork.full_name; then the poll.
createAnswers(answer, fullName) ==
  /\ run.pc = "awaitCreate"
  /\ LET st == St(gh, run) IN
     IF answer = "fulfilled"
       THEN /\ becomes(pollUntilForkExists(
                         [st EXCEPT !.gh.useOpenAuthoring = "true",
                                    !.gh.repo = fullName,
                                    !.run.created = fullName],
                         fullName))
            /\ remoteFork' = IF fullName = Undefined THEN remoteFork
                             ELSE [fork |-> TRUE, parent |-> gh.originRepo]
       ELSE /\ becomes(throws(st, answer))
            /\ UNCHANGED remoteFork
  /\ UNCHANGED <<runs, fetchVars, lockVars,
                 made, auths, logouts, previewVars>>

\* The fetch of a probe settles. GitHub answers at most MaxNotReady probes of
\* a poll with a rejection of status 404.
probeAnswers(answer) ==
  /\ run.pc = "awaitProbe"
  /\ answer = "status404" => run.notReady < MaxNotReady
  /\ becomes(probeSettled(St(gh, run), answer))
  /\ UNCHANGED <<remoteFork, runs, fetchVars, lockVars,
                 made, auths, logouts, previewVars>>

\* setTimeout(resolve, pollDelay) fires: the loop probes again.
pollDelayElapses ==
  /\ run.pc = "pollDelay"
  /\ becomes(probe(St(gh, run)))
  /\ UNCHANGED <<remoteFork, runs, fetchVars, lockVars,
                 made, auths, logouts, previewVars>>

-----------------------------------------------------------------------------
(* isPreviewContext, getPreviewStatus and getDeployPreview. Strings are    *)
(* sequences of characters.                                                *)

PREVIEW_CONTEXT_KEYWORDS == << <<"d", "e", "p", "l", "o", "y">> >>

\* String.prototype.includes
includes(str, sub) ==
  \E k \in 0..(Len(str) - Len(sub)) : SubSeq(str, k + 1, k + Len(sub)) = sub

\* ToBoolean of a string or undefined: false for undefined and for ''.
truthyString(str) == str # Undefined /\ str # <<"">>

\* An isPreviewContext that goes by the keywords only.
isPreviewContextByKeyword(context, previewContext) ==
  \E i \in 1..Len(PREVIEW_CONTEXT_KEYWORDS) : includes(context, PREVIEW_CONTEXT_KEYWORDS[i])

\* if (previewContext) return context === previewContext;
\* return PREVIEW_CONTEXT_KEYWORDS.some(keyword => context.includes(keyword));
isPreviewContext(context, previewContext) ==
  IF truthyString(previewContext)
    THEN context = previewContext
    ELSE \E i \in 1..Len(PREVIEW_CONTEXT_KEYWORDS) :
           includes(context, PREVIEW_CONTEXT_KEYWORDS[i])

\* statuses.find(({ context }) => isPreviewContext(context, previewContext)),
\* from the k-th status on: the place of the first match, 0 when there is none.
RECURSIVE find(_, _, _)
find(statuses, previewContext, k) ==
  IF k > Len(statuses) THEN 0
  ELSE IF isPreviewContext(statuses[k], previewContext) THEN k
  ELSE find(statuses, previewContext, k + 1)

\* getPreviewStatus(statuses, config)
getPreviewStatus(statuses, config) == find(statuses, config.preview_context, 1)

\* getDeployPreview: no call yet. statuses is what getStatuses answered,
\* verdicts what isPreviewContext said of each status find looked at, found
\* the place of the status find returned (0: none), result what the call gave.
NoPreview ==
  [pc |-> "idle", statuses |-> <<>>, verdicts |-> <<>>, found |-> 0, result |-> "-"]

\* getDeployPreview(collectionName, slug) is called: retrieveMetadata is asked.
getDeployPreview ==
  /\ made.error = "-"
  /\ api.kind # "null"
  /\ preview.pc \in {"idle", "done"}
  /\ preview' = [NoPreview EXCEPT !.pc = "awaitMetadata"]
  /\ UNCHANGED <<fetchVars, lockVars, forkVars, authVars>>

\* retrieveMetadata answers: null ("null"), metadata without a pull request
\* ("nopr"), or metadata with one ("pr"): if (!data || !data.pr) return null;
metadataAnswers(data) ==
  /\ preview.pc = "awaitMetadata"
  /\ preview' = IF data = "pr"
                  THEN [preview EXCEPT !.pc = "awaitStatuses"]
                  ELSE [preview EXCEPT !.pc = "done", !.result = "null"]
  /\ UNCHANGED <<fetchVars, lockVars, forkVars, authVars>>

\* getStatuses(headSHA) answers with the statuses (their contexts); the
\* status getPreviewStatus finds gives { url, status }, none gives null.
statusesAnswer(statuses) ==
  /\ preview.pc = "awaitStatuses"
  /\ LET found == getPreviewStatus(statuses, made.config)
         seen  == IF found = 0 THEN Len(statuses) ELSE found
     IN preview' = [preview EXCEPT
                      !.pc = "done",
                      !.statuses = statuses,
                      !.verdicts = [k \in 1..seen |->
                                      isPreviewContext(statuses[k], made.config.preview_context)],
                      !.found = found,
                      !.result = IF found = 0 THEN "null" ELSE "status"]
  /\ UNCHANGED <<fetchVars, lockVars, forkVars, authVars>>

-----------------------------------------------------------------------------
(* restoreUser, authenticate and logout                                    *)

\* authenticate({ token }) is called. The record of the fork resolution made
\* before is dropped: this call made none.
authenticate(tok) ==
  /\ made.error = "-"
  /\ quiet
  /\ auths < MaxAuths
  /\ auths' = auths + 1
  /\ LET a == [NoAuth EXCEPT !.op = "authenticate", !.token = tok,
                             !.before = configured(gh, api)]
         n == authenticateBegins(gh, a, tok)
     IN token' = n.token /\ api' = n.api /\ auth' = n.auth
  /\ run' = NoRun
  /\ UNCHANGED <<made, logouts, gh, remoteFork, runs, fetchVars, lockVars, previewVars>>

\* A restoreUser that goes to authenticate at once, whatever the mode.
restoreUserAuthenticatesAtOnce(tok) ==
  /\ made.error = "-"
  /\ quiet
  /\ auths < MaxAuths
  /\ auths' = auths + 1
  /\ LET a == [NoAuth EXCEPT !.op = "restoreUser", !.token = tok,
                             !.before = configured(gh, api)]
         n == authenticateBegins(gh, a, tok)
     IN token' = n.token /\ api' = n.api /\ auth' = n.auth
  /\ run' = NoRun
  /\ UNCHANGED <<made, logouts, gh, runs, remoteFork, fetchVars, lockVars, previewVars>>

\* restoreUser({ token }) is called: with open authoring,
\* authenticateWithFork({ userData: user, getPermissionToFork: () => true })
\* and then authenticate(user); without, authenticate(user) at once.
restoreUser(tok) ==
  /\ made.error = "-"
  /\ quiet
  /\ auths < MaxAuths
  /\ gh.openAuthoringEnabled => runs < MaxRuns
  /\ auths' = auths + 1
  /\ LET a == [NoAuth EXCEPT !.op = "restoreUser", !.token = tok,
                             !.before = configured(gh, api)]
     IN IF gh.openAuthoringEnabled
          THEN /\ runs' = runs + 1
               /\ settles(afterCall(St(gh, [NoRun EXCEPT !.token = tok, !.gate = "sync"])),
                          [a EXCEPT !.pc = "resolving", !.resolutions = @ + 1,
                                    !.run = runs + 1])
          ELSE /\ LET n == authenticateBegins(gh, a, tok)
                  IN token' = n.token /\ api' = n.api /\ auth' = n.auth
               /\ run' = NoRun
               /\ UNCHANGED <<gh, runs>>
  /\ UNCHANGED <<made, logouts, remoteFork, fetchVars, lockVars, previewVars>>

\* this.api.user() settles: with the user, or rejected.
apiUserAnswers(answer) ==
  /\ auth.pc = "awaitApiUser"
  /\ auth' = IF answer = "fulfilled"
               THEN [auth EXCEPT !.pc = "awaitWriteAccess"]
               ELSE [auth EXCEPT !.pc = "failed", !.error = answer]
  /\ UNCHANGED <<made, api, token, auths, logouts, forkVars, fetchVars, lockVars,
                 previewVars>>

\* this.api.hasWriteAccess() settles: with true or false, or rejected (the
\* error is thrown again with the message "Repo ... not found").
\* if (!isCollab) throw ...; return { ...user, token, useOpenAuthoring }
hasWriteAccessAnswers(answer) ==
  /\ auth.pc = "awaitWriteAccess"
  /\ auth' = IF answer = "true"
               THEN [auth EXCEPT !.pc = "done", !.result = "user"]
             ELSE IF answer = "false"
               THEN [auth EXCEPT !.pc = "failed",
                                 !.error = "Your GitHub user account does not have access to this repo."]
             ELSE [auth EXCEPT !.pc = "failed", !.error = "Repo not found"]
  /\ UNCHANGED <<made, api, token, auths, logouts, forkVars, fetchVars, lockVars,
                 previewVars>>

\* logout(): this.token = null, and the client is reset if it can be. The
\* records of the calls made before are dropped: no call has been made since.
logout ==
  /\ made.error = "-"
  /\ quiet
  /\ logouts < MaxLogouts
  /\ logouts' = logouts + 1
  /\ token' = "null"
  /\ run' = NoRun
  /\ auth' = NoAuth
  /\ UNCHANGED <<made, api, auths, gh, remoteFork, runs, fetchVars, lockVars,
                 previewVars>>

-----------------------------------------------------------------------------
(* Specifications.                                                         *)

\* The state after construction: no fetcher called, the lock free, no guarded
\* operation called, and the backend as the constructor leaves it for the
\* configuration (backend.open_authoring, backend.repo).
FetchInit ==
  /\ fOp = "none"
  /\ fState = "idle"
  /\ sem = semaphore(MAX_CONCURRENT_DOWNLOADS)
  /\ promises = <<>>
  /\ fResult = <<>>
  /\ fError = "-"
  /\ readOutcome = <<>>
  /\ listed = "-"

LockInit ==
  /\ lock = asyncLock
  /\ calls = [p \in 1..MaxCalls |-> NoCall]

constructed(enabled, origin) ==
  [openAuthoringEnabled |-> enabled,
   originRepo |-> origin,
   repo |-> IF enabled THEN Undefined ELSE origin,
   useOpenAuthoring |-> "undefined",
   currentUserPromise |-> Unset,
   userIsOriginMaintainerPromises |-> [u \in Logins |-> Unset]]

\* The empty string, kept apart from undefined.
EmptyString == <<"">>

\* config.getIn(path, notSetValue)
getIn(value, notSetValue) == IF value = Undefined THEN notSetValue ELSE value

\* The configuration, as far as the backend reads it here, and the options.
\* A repo or preview_context that is not there is Undefined; open_authoring
\* is what config.getIn(['backend', 'open_authoring'], false) gives.
configOf(repo, openAuthoring, previewContext) ==
  [repo |-> repo, open_authoring |-> openAuthoring, preview_context |-> previewContext]
optionsOf(proxied, API, useWorkflow) ==
  [proxied |-> proxied, API |-> API, useWorkflow |-> useWorkflow]

\* What `new GitHub(config, options)` gives: the error thrown, or the instance.
threw(message) ==
  [error |-> message, gh |-> constructed(FALSE, Undefined), api |-> NoApi, token |-> "undefined"]

\* A constructor that does not look at the publish mode.
constructorAnyPublishMode(config, options) ==
  IF ~options.proxied /\ config.repo = Undefined
    THEN threw("The GitHub backend needs a \"repo\" in the backend configuration.")
  ELSE [error |-> "-",
        gh |-> constructed(config.open_authoring,
                           getIn(config.repo, EmptyString)),
        api |-> IF options.API = "null" THEN NoApi ELSE [NoApi EXCEPT !.kind = options.API],
        token |-> ""]

\* constructor(config, options)
constructor(config, options) ==
  IF ~options.proxied /\ config.repo = Undefined
    THEN threw("The GitHub backend needs a \"repo\" in the backend configuration.")
  ELSE IF config.open_authoring /\ ~options.useWorkflow
    THEN threw("backend.open_authoring is true but publish_mode is not set to editorial_workflow.")
  ELSE [error |-> "-",
        gh |-> constructed(config.open_authoring,
                           getIn(config.repo, EmptyString)),
        api |-> IF options.API = "null" THEN NoApi ELSE [NoApi EXCEPT !.kind = options.API],
        token |-> ""]

\* The instance new GitHub(config, options) gives, no method called yet.
AuthInit(config, options) ==
  LET c == constructor(config, options) IN
  /\ made = [config |-> config, options |-> options, error |-> c.error]
  /\ gh = c.gh
  /\ api = c.api
  /\ token = c.token
  /\ auth = NoAuth
  /\ auths = 0
  /\ logouts = 0
  /\ run = NoRun
  /\ runs = 0
  /\ preview = NoPreview

ForkInit(configs, remotes) ==
  /\ \E enabled \in configs, origin \in OriginRepos :
       AuthInit(configOf(origin, enabled, Undefined), optionsOf(FALSE, "null", TRUE))
  /\ remoteFork \in remotes

\* A backend without open authoring, for the specifications of the fetchers
\* and of the lock.
PlainInit ==
  /\ AuthInit(configOf(<<"o", "/", "r">>, FALSE, Undefined), optionsOf(FALSE, "null", FALSE))
  /\ remoteFork = [fork |-> FALSE, parent |-> Undefined]

\* The initial states of the specifications.
PlainBackend == FetchInit /\ LockInit /\ PlainInit
OpenAuthoringBackend == FetchInit /\ LockInit /\ ForkInit(BOOLEAN, RepoJsons)

\* What the listing is rejected with: errors with these messages, or null.
ListErrors == {"Not Found", "Bad credentials", "null"}

\* The fetchers on short lists, with every kind of rejection.
FetchNext ==
  \/ \E n \in 0..MaxFiles : fetchFiles(n)
  \/ \E i \in 1..MaxFiles : readFileResolves(i)
  \/ \E i \in 1..MaxFiles, err \in RejectValues : readFileRejects(i, err)
  \/ unpublishedEntries
  \/ \E n \in 0..MaxFiles : listResolves(n)
  \/ \E msg \in ListErrors : listRejects(msg)
  \/ \E i \in 1..MaxFiles, d \in {"data", "null", "malformed"} :
       readBranchResolves(i, d)
  \/ \E i \in 1..MaxFiles : readBranchRejects(i)

FetchSpec == PlainBackend /\ [][FetchNext]_vars

\* The fetchers on lists longer than the semaphore is wide, with at most
\* MaxFailed reads of a list failing, each rejected with an Error object.
CapLen == MAX_CONCURRENT_DOWNLOADS + MaxOverflow

CapNext ==
  \/ \E n \in 0..CapLen : fetchFiles(n)
  \/ \E i \in 1..CapLen : readFileResolves(i)
  \/ \E i \in 1..CapLen :
       Cardinality(failed) < MaxFailed /\ readFileRejects(i, "Error")
  \/ unpublishedEntries
  \/ \E n \in 0..CapLen : listResolves(n)
  \/ \E msg \in ListErrors : listRejects(msg)
  \/ \E i \in 1..CapLen : readBranchResolves(i, "data")
  \/ \E i \in 1..CapLen :
       Cardinality(failed) < MaxFailed /\ readBranchRejects(i)

CapSpec == PlainBackend /\ [][CapNext]_vars

\* Every way of constructing the backend, and what GitHub has at the fork's name.
Configs ==
  {configOf(repo, oa, Undefined) :
     repo \in {Undefined, <<"o", "/", "r">>}, oa \in BOOLEAN}
Options ==
  {optionsOf(proxied, API, wf) :
     proxied \in BOOLEAN, API \in {"null", "injected"}, wf \in BOOLEAN}

AnyBackend ==
  /\ FetchInit
  /\ LockInit
  /\ \E config \in Configs, options \in Options : AuthInit(config, options)
  /\ remoteFork \in {[fork |-> FALSE, parent |-> Undefined],
                      [fork |-> TRUE, parent |-> <<"o", "/", "r">>]}

\* Construction, authentication and logout. One kind of rejection stands for
\* the rejections of a fetch that are not a 404.
AuthNext ==
  \/ \E t \in Tokens : authenticate(t)
  \/ \E t \in Tokens : restoreUser(t)
  \/ \E a \in {"fulfilled", "status500"} : apiUserAnswers(a)
  \/ \E a \in {"true", "false", "status500"} : hasWriteAccessAnswers(a)
  \/ logout
  \/ \E t \in Tokens : authenticateWithFork(t, "async")
  \/ \E a \in {"fulfilled", "status500"} : userAnswers(a)
  \/ \E a \in {"write", "read", "status500"} : permissionAnswers(a)
  \/ \E a \in {"fulfilled", "status500"} : forkLookupAnswers(a)
  \/ \E a \in {"true", "refused"} : gateSettles(a)
  \/ \E a \in {"fulfilled", "status500"} : createAnswers(a, ForkName)
  \/ \E a \in {"fulfilled", "status404", "status500"} : probeAnswers(a)
  \/ pollDelayElapses

AuthSpec == AnyBackend /\ [][AuthNext]_vars

\* The contexts of the commit statuses and the values of
\* backend.preview_context (Undefined: the key is not there).
DeployPreview == <<"d", "e", "p", "l", "o", "y", "-", "p", "r", "e", "v", "i", "e", "w">>
CiTests == <<"c", "i", "-", "t", "e", "s", "t", "s">>
Contexts ==
  {DeployPreview, CiTests,
   <<"n", "e", "t", "l", "i", "f", "y", "/", "d", "e", "p", "l", "o", "y">>,
   <<"D", "e", "p", "l", "o", "y">>,
   <<"d", "e", "p", "l", "o">>}
PreviewContexts == {Undefined, EmptyString, CiTests, DeployPreview}

StatusLists == UNION {[1..n -> Contexts] : n \in 0..MaxStatuses}

PreviewBackend ==
  /\ FetchInit
  /\ LockInit
  /\ \E previewContext \in PreviewContexts :
       AuthInit(configOf(<<"o", "/", "r">>, FALSE, previewContext),
                optionsOf(FALSE, "injected", FALSE))
  /\ remoteFork = [fork |-> FALSE, parent |-> Undefined]

\* The deploy preview of an entry.
PreviewNext ==
  \/ getDeployPreview
  \/ \E data \in {"null", "nopr", "pr"} : metadataAnswers(data)
  \/ \E statuses \in StatusLists : statusesAnswer(statuses)

PreviewSpec == PreviewBackend /\ [][PreviewNext]_vars

\* The guarded operations of one backend instance.
LockNext ==
  \/ \E p \in 1..MaxCalls, op \in GuardedOps : runWithLock(p, op)
  \/ \E p \in 1..MaxCalls : acquireFails(p)
  \/ \E p \in 1..MaxCalls, r \in {"value", "error"} : funcSettles(p, r)

LockSpec == PlainBackend /\ [][LockNext]_vars

\* Fork resolution.
ForkNext ==
  \/ \E t \in Tokens, g \in {"sync", "async"} : authenticateWithFork(t, g)
  \/ \E a \in {"fulfilled"} \cup FetchErrors : userAnswers(a)
  \/ \E a \in Permissions \cup FetchErrors : permissionAnswers(a)
  \/ \E a \in {"fulfilled"} \cup FetchErrors : forkLookupAnswers(a)
  \/ \E a \in {"true", "false", "refused"} : gateSettles(a)
  \/ \E a \in {"fulfilled"} \cup FetchErrors, n \in {ForkName, Undefined} :
       createAnswers(a, n)
  \/ \E a \in {"fulfilled"} \cup FetchErrors : probeAnswers(a)
  \/ pollDelayElapses

ForkSpec == OpenAuthoringBackend /\ [][ForkNext]_vars

-----------------------------------------------------------------------------
(* The claims.                                                             *)

\* C1: whatever the length of the list and the order in which the reads
\* settle, at most MAX_CONCURRENT_DOWNLOADS reads of a fetcher are started and
\* not yet settled.
C1_AtMostTenReads == Cardinality(running) <= MAX_CONCURRENT_DOWNLOADS

\* A list of branches longer than the semaphore is wide, a read has failed,
\* the waiting read was let in and ten reads are running.
C1_Witness ==
  /\ fOp = "unpublishedEntries"
  /\ Len(promises) > MAX_CONCURRENT_DOWNLOADS
  /\ failed # {}
  /\ sem.queue = <<>>
  /\ Cardinality(running) = MAX_CONCURRENT_DOWNLOADS

\* C2: the collection fetchFiles returns holds exactly one entry for each
\* file whose read succeeded and none for a file whose read failed, whatever
\* the read was rejected with.
C2_OneEntryPerSucceedingFile ==
  (fOp = "fetchFiles" /\ fState = "fulfilled") =>
    /\ \A i \in succeeded :
         Cardinality({k \in 1..Len(fResult) : fResult[k].src = i}) = 1
    /\ \A i \in failed : \A k \in 1..Len(fResult) : fResult[k].src # i
    /\ Len(fResult) = Cardinality(succeeded)

\* C3: fetchFiles is never rejected, is fulfilled exactly when every read has
\* settled, and a read that waits for a slot waits only while ten others run.
C3_FanInBarrier ==
  (fOp = "fetchFiles") =>
    /\ fState # "rejected"
    /\ fState = "fulfilled" <=> settled = 1..Len(promises)
    /\ sem.queue # <<>> => Cardinality(running) = MAX_CONCURRENT_DOWNLOADS
    /\ \A i \in 1..Len(promises) :
         readOutcome[i] = "-" =>
           isRunning(i) \/ \E k \in 1..Len(sem.queue) : sem.queue[k] = i

\* fetchFiles of more than ten files is fulfilled after reads have failed and
\* reads have succeeded.
C3_Witness ==
  /\ fOp = "fetchFiles"
  /\ fState = "fulfilled"
  /\ Len(promises) > MAX_CONCURRENT_DOWNLOADS
  /\ failed # {}
  /\ succeeded # {}

inFlight == {p \in DOMAIN calls : calls[p].pc = "func"}

\* C4, as claimed: at most one guarded function body is in flight at any time.
C4_AtMostOneInFlight == Cardinality(inFlight) <= 1

\* C4, amended: as long as no acquire() has answered that the lock was not
\* obtained, at most one guarded function body is in flight.
C4_OneInFlightWhileObtained ==
  (\A p \in DOMAIN calls : calls[p].acquired # "false") =>
    Cardinality(inFlight) <= 1

\* An invocation is done, the next one got the lock from it and runs its
\* function, a third one waits.
C4_Witness ==
  /\ \A p \in DOMAIN calls : calls[p].acquired # "false"
  /\ \E p, q, w \in DOMAIN calls :
       /\ calls[p].pc = "done" /\ calls[p].acquired = "true"
       /\ calls[q].pc = "func" /\ calls[q].acquired = "true"
       /\ calls[w].pc = "acquiring"

\* C5: every invocation of runWithLock calls acquire() once and release()
\* once, and release() not before its function has settled.
C5_ReleaseOncePerAcquire ==
  \A p \in DOMAIN calls :
    /\ calls[p].pc = "idle" => calls[p].acquires = 0 /\ calls[p].releases = 0
    /\ calls[p].pc \in {"acquiring", "func"} =>
         calls[p].acquires = 1 /\ calls[p].releases = 0
    /\ calls[p].pc = "done" =>
         /\ calls[p].acquires = 1 /\ calls[p].releases = 1
         /\ calls[p].funcResult # "-"

\* An invocation whose function failed is done and has released once.
C5_Witness ==
  \E p \in DOMAIN calls :
    /\ calls[p].pc = "done"
    /\ calls[p].funcResult = "error"
    /\ calls[p].releases = 1

\* C6: an invocation whose acquire() answered "not obtained" has logged the
\* message of its operation, runs its function exactly once, and ends as its
\* function ends.
C6_NotObtainedStillRuns ==
  \A p \in DOMAIN calls :
    calls[p].acquired = "false" =>
      /\ calls[p].warned = lockMessage(calls[p].op)
      /\ calls[p].pc \in {"func", "done"}
      /\ calls[p].funcRuns = 1
      /\ calls[p].pc = "done" =>
           calls[p].funcResult # "-" /\ calls[p].result = calls[p].funcResult

\* An invocation that did not obtain the lock has returned its function's value.
C6_Witness ==
  \E p \in DOMAIN calls :
    /\ calls[p].acquired = "false"
    /\ calls[p].pc = "done"
    /\ calls[p].result = "value"

\* The user of the call is an origin maintainer: GitHub answered admin or write.
maintainer == run.permission \in {"admin", "write"}
notMaintainer == run.permission \in {"read", "none"}

\* The repository GitHub answered the lookup with is a fork of origin.
validFork(json) ==
  /\ json.fork
  /\ json.parent # Undefined
  /\ toLowerCase(json.parent) = toLowerCase(gh.originRepo)

\* C7: for an origin maintainer authenticateWithFork returns with the origin
\* as the repository and open authoring off, and has made no fork lookup, no
\* call of the gate, no creation call and no probe.
C7_MaintainerUsesOrigin ==
  maintainer =>
    /\ run.pc = "done"
    /\ gh.repo = gh.originRepo
    /\ gh.useOpenAuthoring = "false"
    /\ run.forkLookups = 0
    /\ run.gateCalls = 0
    /\ run.createCalls = 0
    /\ run.probes = 0

\* A user with write permission, who has a fork of origin, is through.
C7_Witness ==
  /\ run.pc = "done"
  /\ run.permission = "write"
  /\ validFork(remoteFork)

\* The lookup of the call found a valid fork.
forkFound == notMaintainer /\ run.lookup = "answered" /\ validFork(run.lookupJson)
\* The lookup of the call found none, or failed.
noForkFound == notMaintainer /\ run.lookup # "-" /\ ~forkFound

\* C8, as claimed: when a valid fork exists, no creation call is issued.
C8_NoCreationCall == forkFound => run.createCalls = 0

\* C8, amended: when a valid fork exists the permission gate is not called;
\* the creation call is issued all the same, once, and the poll uses the
\* full name that call answers with.
C8_ExistingForkSkipsGate ==
  forkFound =>
    /\ run.gateCalls = 0
    /\ run.createCalls = 1
    /\ run.probes > 0 => run.polled = run.created

\* A fork whose parent is written in another case than origin was found, and
\* the call is through.
C8_Witness ==
  /\ forkFound
  /\ run.lookupJson.parent # gh.originRepo
  /\ run.pc = "done"
  /\ run.createCalls = 1

\* C9: when no fork exists the gate is called and has settled before the
\* creation call, the creation call is issued once at most, and the call
\* returns only after a probe succeeded, with the fork as the repository and
\* open authoring on.
C9_GateThenCreateThenPoll ==
  noForkFound =>
    /\ run.gateCalls = 1
    /\ run.createCalls <= 1
    /\ run.createCalls = 1 => run.gateSettled = 1
    /\ run.probes > 0 => run.createCalls = 1 /\ run.polled = run.created
    /\ run.pc = "pollDelay" => run.lastProbe = "status404"
    /\ run.pc = "done" =>
         /\ run.createCalls = 1
         /\ run.lastProbe = "fulfilled"
         /\ gh.repo = run.created
         /\ gh.useOpenAuthoring = "true"

\* No fork was found, a human granted the fork, the fork was not ready at
\* first, and the call is through.
C9_Witness ==
  /\ noForkFound
  /\ run.gate = "async"
  /\ run.notReady > 0
  /\ run.created = ForkName
  /\ run.pc = "done"

\* C10: a probe rejected with status 404 is followed by the delay and another
\* probe, however many came before; a probe rejected with anything else ends
\* the call with that rejection; a probe that is fulfilled ends the poll, and
\* no probe follows the end of the call.
C10_PollStep ==
  /\ (run.pc = "awaitProbe" /\ run' # run) =>
       /\ run'.probes = run.probes
       /\ run'.lastProbe = "status404" => run'.pc = "pollDelay"
       /\ run'.lastProbe = "fulfilled" => run'.pc = "done"
       /\ run'.lastProbe \notin {"status404", "fulfilled"} =>
            run'.pc = "failed" /\ run'.error = run'.lastProbe
  /\ (run.pc = "pollDelay" /\ run' # run) =>
       run'.pc = "awaitProbe" /\ run'.probes = run.probes + 1
  /\ (run.pc \in {"done", "failed"} /\ run' # run) => run'.probes = 0

C10_Poll ==
  /\ [][C10_PollStep]_vars
  /\ [](run.pc = "pollDelay" => ENABLED pollDelayElapses)

\* A poll whose probes were rejected with 404 as often as GitHub does so, and
\* then fulfilled.
C10_Witness ==
  /\ run.pc = "done"
  /\ run.notReady = MaxNotReady
  /\ run.probes = MaxNotReady + 1
  /\ run.lastProbe = "fulfilled"

\* C14: unpublishedEntries is fulfilled with the empty list when the listing
\* is rejected with the message "Not Found"; it is rejected with the same
\* error when the listing is rejected with another message; and once the
\* branches are listed it is never rejected and is fulfilled with the entries
\* of exactly the branches whose read gave data, in the order of the list.
C14_NotFoundIsEmptyList ==
  (fOp = "unpublishedEntries" /\ fState # "listing") =>
    /\ listed = "Not Found" => fState = "fulfilled" /\ fResult = <<>>
    /\ listed \in ListErrors \ {"Not Found", "null"} =>
         fState = "rejected" /\ fError = listed
    /\ listed = "branches" =>
         /\ fState # "rejected"
         /\ fState = "fulfilled" =>
              /\ {fResult[k].src : k \in 1..Len(fResult)} = succeeded
              /\ \A k \in 1..Len(fResult) : fResult[k].val = entryOf("data")
              /\ \A j, k \in 1..Len(fResult) : j < k => fResult[j].src < fResult[k].src

\* The listing was rejected with "Not Found" and unpublishedEntries is
\* fulfilled with the empty list.
C14_Witness ==
  /\ fOp = "unpublishedEntries"
  /\ listed = "Not Found"
  /\ fState = "fulfilled"
  /\ fResult = <<>>

\* C18: in both fetchers the number of slots taken is the number of reads
\* started and not settled (every item that took a slot left it once, and
\* only once), it never goes below zero, and once the operation has resolved
\* every slot is free and nothing waits.
C18_SlotAccounting ==
  /\ sem.current >= 0
  /\ sem.current = Cardinality(running)
  /\ fState \in {"fulfilled", "rejected"} => sem.current = 0 /\ sem.queue = <<>>

\* unpublishedEntries over more branches than there are slots has resolved
\* after reads failed and reads succeeded, and every slot is free.
C18_Witness ==
  /\ fOp = "unpublishedEntries"
  /\ fState = "fulfilled"
  /\ Len(promises) > MAX_CONCURRENT_DOWNLOADS
  /\ failed # {}
  /\ succeeded # {}
  /\ sem.current = 0

\* C15: an invocation of runWithLock that has ended has ended as its guarded
\* function did, with the value it returned or the error it failed with,
\* whether or not the lock was obtained; before that it has no result.
C15_ResultUnchanged ==
  \A p \in DOMAIN calls :
    /\ calls[p].pc = "done" =>
         /\ calls[p].funcResult \in {"value", "error"}
         /\ calls[p].result = calls[p].funcResult
    /\ calls[p].pc # "done" => calls[p].result = "-"

\* Two invocations have failed with the error of their function, one that
\* had obtained the lock and one that had not.
C15_Witness ==
  \E p, q \in DOMAIN calls :
    /\ calls[p].pc = "done" /\ calls[p].acquired = "true" /\ calls[p].result = "error"
    /\ calls[q].pc = "done" /\ calls[q].acquired = "false" /\ calls[q].result = "error"

\* The invocations that obtained the lock and are executing their function.
holders == {p \in DOMAIN calls : calls[p].pc = "func" /\ calls[p].acquired = "true"}

\* C19, as claimed: while an invocation that obtained the lock is executing
\* its function, the lock is not available and nobody else has obtained it.
C19_HolderKeepsLock ==
  holders # {} => lock.held /\ Cardinality(holders) = 1

\* C12, as claimed: a fork resolution whose fork-existence lookup was rejected
\* has failed with that error, and has neither asked the gate nor created a fork.
C12_LookupFailurePropagates ==
  run.lookup \in FetchErrors =>
    /\ run.pc = "failed"
    /\ run.error = run.lookup
    /\ run.gateCalls = 0
    /\ run.createCalls = 0

\* C11, as claimed: the client member is assigned only when an authentication
\* has fully succeeded, and an authentication that failed has left the client
\* member, the target repository and the open-authoring flag as they were.
C11_NoPartialState ==
  /\ auth.pc \notin {"idle", "done"} => auth.assignments = 0
  /\ auth.pc = "failed" =>
       /\ api = auth.before.api
       /\ gh.repo = auth.before.repo
       /\ gh.useOpenAuthoring = auth.before.useOpenAuthoring

\* C13, as claimed: a fork resolution started after a logout has fetched the
\* identity and the permission it works with itself, with its own token.
C13_FreshAfterLogout ==
  logouts > 0 =>
    /\ run.username # "-" =>
         run.userFetches = 1 /\ run.username = loginOf(run.token)
    /\ run.permission # "-" => run.permissionFetches = 1

\* C16: construction throws when the backend is not proxied and has no repo,
\* and when open authoring is on without the editorial workflow; an instance
\* without open authoring has the origin repository for target at all times,
\* and one with open authoring has no target as long as no fork resolution
\* was started.
C16_ConstructionErrors ==
  /\ (~made.options.proxied /\ made.config.repo = Undefined) =>
       made.error = "The GitHub backend needs a \"repo\" in the backend configuration."
  /\ (made.config.open_authoring /\ ~made.options.useWorkflow) => made.error # "-"
  /\ made.error # "-" => auths = 0 /\ runs = 0 /\ logouts = 0
  /\ made.error = "-" =>
       /\ gh.openAuthoringEnabled = made.config.open_authoring
       /\ gh.originRepo = getIn(made.config.repo, EmptyString)
       /\ ~made.config.open_authoring => gh.repo = gh.originRepo
       /\ (made.config.open_authoring /\ runs = 0) => gh.repo = Undefined

\* A configuration with a repo and open authoring, without the editorial
\* workflow: the constructor threw.
C16_Witness ==
  /\ made.config.repo # Undefined
  /\ made.config.open_authoring
  /\ ~made.options.useWorkflow
  /\ made.error = "backend.open_authoring is true but publish_mode is not set to editorial_workflow."

\* C20: restoreUser with open authoring starts one fork resolution whose gate
\* is a function that answers at once, makes no client before the resolution
\* is done (poll included), fails as the resolution fails, and makes the
\* client with the target and the flag the resolution decided; without open
\* authoring restoreUser starts no fork resolution, and authenticateWithFork
\* fails at once and leaves the target as the constructor set it.
C20_RestoreUser ==
  /\ (auth.op = "restoreUser" /\ gh.openAuthoringEnabled) =>
       /\ auth.resolutions = 1
       /\ run.gate = "sync" /\ run.pc # "awaitGate" /\ run.gateSettled = run.gateCalls
       /\ auth.pc = "resolving" <=> run.pc \notin {"done", "failed"}
       /\ auth.pc = "resolving" => auth.assignments = 0 /\ api = auth.before.api
       /\ run.pc = "failed" =>
            auth.pc = "failed" /\ auth.error = run.error /\ auth.assignments = 0
       /\ run.pc = "done" =>
            /\ auth.assignments = 1
            /\ notMaintainer => run.lastProbe = "fulfilled" /\ run.polled = run.created
            /\ api.kind = "client"
            /\ api.token = auth.token
            /\ api.repo = IF maintainer THEN gh.originRepo ELSE run.created
            /\ api.useOpenAuthoring = IF maintainer THEN "false" ELSE "true"
            /\ api.repo = gh.repo
            /\ api.useOpenAuthoring = gh.useOpenAuthoring
  /\ (auth.op = "restoreUser" /\ ~gh.openAuthoringEnabled) =>
       /\ auth.resolutions = 0
       /\ run = NoRun
       /\ auth.assignments = 1
       /\ api.repo = gh.originRepo
  /\ (made.error = "-" /\ ~gh.openAuthoringEnabled /\ run.pc # "idle") =>
       /\ run.pc = "failed"
       /\ run.error = "Open Authoring is turned off"
       /\ run.userFetches = 0
       /\ gh.repo = gh.originRepo
       /\ gh.useOpenAuthoring = "undefined"

\* restoreUser with open authoring has succeeded for a user who is no
\* maintainer, after a poll that found the fork not ready at first; the
\* client works on the fork.
C20_Witness ==
  /\ auth.op = "restoreUser"
  /\ gh.openAuthoringEnabled
  /\ auth.pc = "done"
  /\ notMaintainer
  /\ run.notReady > 0
  /\ api.repo = ForkName
  /\ api.useOpenAuthoring = "true"

\* C17: isPreviewContext(context, previewContext) is true exactly when context
\* equals previewContext if previewContext is not empty, and exactly when
\* context contains "deploy" if it is empty or not given; so it is true for
\* ("deploy-preview", ""), false for ("ci-tests", "") and true for
\* ("ci-tests", "ci-tests").
C17_IsPreviewContext ==
  LET previewContext == made.config.preview_context
      deploy == <<"d", "e", "p", "l", "o", "y">>
  IN \A k \in 1..Len(preview.verdicts) :
       LET context == preview.statuses[k]
           verdict == preview.verdicts[k]
       IN /\ previewContext \notin {Undefined, EmptyString} =>
               (verdict <=> context = previewContext)
          /\ previewContext \in {Undefined, EmptyString} =>
               (verdict <=> \E j \in 1..(Len(context) - 5) :
                              \A c \in 1..6 : context[j + c - 1] = deploy[c])
          /\ (context = DeployPreview /\ previewContext = EmptyString) => verdict
          /\ (context = CiTests /\ previewContext = EmptyString) => ~verdict
          /\ (context = CiTests /\ previewContext = CiTests) => verdict

\* With preview_context "ci-tests", the status "deploy-preview" was passed
\* over and the status "ci-tests" after it was found.
C17_Witness ==
  /\ preview.pc = "done"
  /\ made.config.preview_context = CiTests
  /\ preview.found = 2
  /\ preview.statuses[1] = DeployPreview
  /\ preview.statuses[2] = CiTests
  /\ preview.verdicts = <<FALSE, TRUE>>
  /\ preview.result = "status"

====
